---- MODULE Spec2Model ----
(***************************************************************************)
(* The dialogs cache of TelegramService (src/telegram_client.py) and the   *)
(* requests that read, refill and clear it.                                *)
(*                                                                         *)
(* The service is one asyncio process: a coroutine runs without            *)
(* interruption between two awaits, so every action below is the code      *)
(* between two suspension points of get_dialogs (await start_client, the   *)
(* async-for over iter_dialogs) or a whole synchronous method.  The loop   *)
(* over iter_dialogs only touches locals, so its iterations are one step;  *)
(* the two assignments that publish the cache follow the last iteration    *)
(* without an await and belong to the same step.                           *)
(*                                                                         *)
(* Three specifications: Spec has callers that use the service methods     *)
(* directly; GatewaySpec has the HTTP routes of src/main.py that reach the *)
(* cache, each behind its handler; JoinSpec has POST /joinChat.            *)
(***************************************************************************)
EXTENDS Integers, Sequences, FiniteSets, TLC

VARIABLES
    now,                \* the wall clock read by time.time(), in seconds
    dialogs_cache,      \* self._dialogs_cache: None or Some(list of summaries)
    dialogs_cache_time, \* self._dialogs_cache_time
    connected,          \* self.client.is_connected()
    authorized,         \* whether the session file is authorized at Telegram
    task,               \* per caller: the call in progress or its outcome
                        \* (refills: passes through the refill path, lines
                        \* 125-166, made by the call; seen_time: history, the
                        \* _dialogs_cache_time of the expired entry that a
                        \* call without force_refresh found)
    cleared,            \* history: clear ran and no get_dialogs was issued since
    request             \* per caller: the HTTP request (src/main.py) it is
                        \* handling, its position in the handler, its response

vars == <<now, dialogs_cache, dialogs_cache_time, connected, authorized, task,
          cleared, request>>

-----------------------------------------------------------------------------
(* Bounds of the model.                                                    *)

StartTime == 1000       \* the clock value at construction
TickStep == 300         \* seconds the clock advances in one Tick
MaxTicks == 3           \* number of Ticks explored
BigLen == 202           \* length of the longest backend dialog list

GatewayTicks == 2       \* number of Ticks explored with the gateway

MaxTime == StartTime + MaxTicks * TickStep
GatewayMaxTime == StartTime + GatewayTicks * TickStep

Procs == {"a", "b"}     \* concurrent callers of the service

Limits == {-1, 0, 50, 201}       \* limit arguments tried by callers

-----------------------------------------------------------------------------
(* Program constants.                                                      *)

cache_ttl == 600        \* self._cache_ttl
MinLimit == 1           \* lower clamp of limit
MaxLimit == 200         \* upper clamp of limit
MaxCached == 200        \* the refill stops after this many accepted dialogs

-----------------------------------------------------------------------------
(* Python values.                                                          *)

None == <<>>
Some(x) == <<x>>

Min(a, b) == IF a < b THEN a ELSE b
Max(a, b) == IF a > b THEN a ELSE b

\* s[:n] for n >= 0
Slice(s, n) == SubSeq(s, 1, Min(n, Len(s)))

\* datetime.isoformat() of a date given as a day number
Isoformat(date) == "D" \o ToString(date) \o "T00:00:00"

-----------------------------------------------------------------------------
(* The backend: what client.iter_dialogs() can enumerate.                  *)

Dialog(id, title, entity, broadcast, archived, unread, date) ==
    [id |-> id, title |-> title, entity |-> entity, broadcast |-> broadcast,
     archived |-> archived, unread_count |-> unread, date |-> date]

ArchivedBackend == << Dialog(1, "old", "Chat", FALSE, TRUE, 0, Some(3)) >>

SmallBackend ==
    << Dialog(11, "", "User", FALSE, FALSE, 2, None),
       Dialog(12, "team", "Chat", FALSE, TRUE, 0, Some(5)),
       Dialog(13, "news", "Channel", TRUE, FALSE, 7, Some(6)),
       Dialog(14, "chat", "Channel", FALSE, FALSE, 0, Some(7)),
       Dialog(15, "bot", "Other", FALSE, FALSE, 1, None),
       Dialog(16, "friends", "Chat", FALSE, FALSE, 3, Some(8)) >>

BigBackend ==
    [i \in 1..BigLen |->
        Dialog(100 + i, "", "User", FALSE, i = 2, 0, None)]

Backends == << ArchivedBackend, SmallBackend, BigBackend >>

-----------------------------------------------------------------------------
(* get_dialogs: the pure parts.                                            *)

\* ClampLimit without the lower bound
ClampLimitAbove(limit) == Min(limit, MaxLimit)

ClampLimit(limit) == Min(Max(limit, MinLimit), MaxLimit)

\* ChatType without the test of entity.broadcast
ChatTypeIgnoringBroadcast(entity) ==
    IF entity.entity = "User" THEN "user"
    ELSE IF entity.entity = "Chat" THEN "group"
    ELSE IF entity.entity = "Channel" THEN "channel"
    ELSE "unknown"

ChatType(entity) ==
    IF entity.entity = "User" THEN "user"
    ELSE IF entity.entity = "Chat" THEN "group"
    ELSE IF entity.entity = "Channel"
         THEN IF entity.broadcast THEN "channel" ELSE "supergroup"
    ELSE "unknown"

Summary(dialog) ==
    [id |-> dialog.id,
     name |-> IF dialog.title # "" THEN dialog.title
              ELSE "User " \o ToString(dialog.id),
     type |-> ChatType(dialog),
     unread_count |-> dialog.unread_count,
     last_message_date |-> IF dialog.date # None
                           THEN Some(Isoformat(dialog.date[1])) ELSE None]

\* one pass of the loop body (lines 131-162) over a dialog; loop is the
\* state of the loop: the list built, the counter, and whether it has broken
\* LoopBody without the test at line 135
LoopBodyKeepingArchived(loop, dialog) ==
    IF loop.broken THEN loop
    ELSE [dialogs |-> Append(loop.dialogs, Summary(dialog)),
          count |-> loop.count + 1,
          broken |-> loop.count + 1 >= MaxCached]

LoopBody(loop, dialog) ==
    IF loop.broken \/ dialog.archived THEN loop
    ELSE [dialogs |-> Append(loop.dialogs, Summary(dialog)),
          count |-> loop.count + 1,
          broken |-> loop.count + 1 >= MaxCached]

\* the loop over backend[lo..hi], in order (split in halves to keep the
\* evaluation shallow)
RECURSIVE IterDialogs(_, _, _, _)
IterDialogs(backend, lo, hi, loop) ==
    IF lo > hi THEN loop
    ELSE IF lo = hi THEN LoopBody(loop, backend[lo])
    ELSE LET mid == (lo + hi) \div 2
             left == IterDialogs(backend, lo, mid, loop)
         IN IF left.broken THEN left
            ELSE IterDialogs(backend, mid + 1, hi, left)

\* the list lines 128-162 build from a backend list
FetchDialogs(backend) ==
    IterDialogs(backend, 1, Len(backend),
                [dialogs |-> <<>>, count |-> 0, broken |-> FALSE]).dialogs

Fetched == [b \in DOMAIN Backends |-> FetchDialogs(Backends[b])]

\* CacheFresh with the ttl taken for minutes
CacheFreshMinutes(cache, cache_time, current_time) ==
    /\ cache # None
    /\ current_time - cache_time < cache_ttl \div 60

\* CacheFresh without the age test
CacheNeverExpires(cache, cache_time, current_time) ==
    cache # None

\* CacheFresh with an entry of age ttl still taken as fresh
CacheFreshAtTTL(cache, cache_time, current_time) ==
    /\ cache # None
    /\ current_time - cache_time <= cache_ttl

CacheFresh(cache, cache_time, current_time) ==
    /\ cache # None
    /\ current_time - cache_time < cache_ttl

\* CacheHit without the force_refresh test
CacheHitIgnoringForce(force_refresh, cache, cache_time, current_time) ==
    CacheFresh(cache, cache_time, current_time)

CacheHit(force_refresh, cache, cache_time, current_time) ==
    /\ ~force_refresh
    /\ CacheFresh(cache, cache_time, current_time)

-----------------------------------------------------------------------------
(* Calls.                                                                  *)

IdleTask ==
    [op |-> "none", pc |-> "idle", limit |-> 0, force_refresh |-> FALSE,
     current_time |-> 0, seen_time |-> 0, refills |-> 0,
     result |-> None, error |-> ""]

Finished(p) == task[p].pc \in {"idle", "returned", "raised"}

\* the call is over: its locals are gone, its outcome stays with the caller
Returned(op, refills, result) ==
    [IdleTask EXCEPT !.op = op, !.pc = "returned", !.refills = refills,
                     !.result = Some(result)]

Raised(t, error) ==
    [IdleTask EXCEPT !.op = t.op, !.pc = "raised", !.refills = t.refills,
                     !.error = error]

\* a request: the route, the position of its handler, the parameters, and
\* the response (status code, body of a StatusResponse, detail of an
\* HTTPException); cleared_time is history: the fill time of the fresh
\* entry that a refresh cleared, 0 if it found none
IdleRequest ==
    [op |-> "none", pc |-> "idle", limit |-> 0, force_refresh |-> FALSE,
     invite_link |-> <<>>, status |-> 0, body |-> None, detail |-> "",
     cleared_time |-> 0]

Init ==
    /\ now = StartTime
    /\ dialogs_cache = None
    /\ dialogs_cache_time = 0
    /\ connected = FALSE
    /\ authorized \in BOOLEAN
    /\ task = [p \in Procs |-> IdleTask]
    /\ cleared = FALSE
    /\ request = [p \in Procs |-> IdleRequest]

\* get_dialogs up to its first await: clamp, read the clock, look at the cache
get_dialogs(p, limit, force_refresh) ==
    /\ Finished(p)
    /\ LET lim == ClampLimit(limit)
           current_time == now
       IN IF CacheHit(force_refresh, dialogs_cache, dialogs_cache_time, current_time)
          THEN task' = [task EXCEPT ![p] =
                   Returned("get_dialogs", 0, Slice(dialogs_cache[1], lim))]
          ELSE task' = [task EXCEPT ![p] =
                   [IdleTask EXCEPT !.op = "get_dialogs",
                        !.pc = IF connected THEN "iter_dialogs" ELSE "start_client",
                        !.limit = lim, !.force_refresh = force_refresh,
                        !.current_time = current_time,
                        !.seen_time = IF ~force_refresh /\ dialogs_cache # None
                                      THEN dialogs_cache_time ELSE 0,
                        !.refills = 1]]
    /\ cleared' = FALSE
    /\ UNCHANGED <<now, dialogs_cache, dialogs_cache_time, connected, authorized>>

\* line 125 with the client not connected: connect() answered
\* (lines 68-79), and the session is authorized or it is not
start_client_connected(p) ==
    /\ task[p].pc = "start_client"
    /\ connected' = TRUE
    /\ task' = [task EXCEPT ![p] =
           IF authorized THEN [@ EXCEPT !.pc = "iter_dialogs"]
           ELSE Raised(@, "ValueError")]
    /\ UNCHANGED <<now, dialogs_cache, dialogs_cache_time, authorized, cleared>>

\* line 125 with the client not connected: connect() raised and the
\* interactive client.start() (lines 81-93) logged in, or raised as well
start_client_fallback(p, logged_in) ==
    /\ task[p].pc = "start_client"
    /\ IF logged_in
       THEN /\ connected' = TRUE
            /\ authorized' = TRUE
            /\ task' = [task EXCEPT ![p].pc = "iter_dialogs"]
       ELSE /\ task' = [task EXCEPT ![p] = Raised(@, "ValueError")]
            /\ UNCHANGED <<connected, authorized>>
    /\ UNCHANGED <<now, dialogs_cache, dialogs_cache_time, cleared>>

\* what lines 165-166 store
StoredCache(dialogs) == Some(dialogs)

\* StoredCacheTime for a refill that sets the fill time only when none is set
StoredCacheTimeIfUnset(current_time) ==
    IF dialogs_cache_time # 0 THEN dialogs_cache_time ELSE current_time

StoredCacheTime(current_time) == current_time

\* iter_dialogs for a refill that caches the list it returns
iter_dialogs_caching_result(p, b) ==
    /\ task[p].pc = "iter_dialogs"
    /\ connected /\ authorized
    /\ LET dialogs == Slice(Fetched[b], task[p].limit)
       IN /\ dialogs_cache' = StoredCache(dialogs)
          /\ dialogs_cache_time' = StoredCacheTime(task[p].current_time)
          /\ task' = [task EXCEPT ![p] =
                 Returned("get_dialogs", @.refills, Slice(dialogs, @.limit))]
    /\ UNCHANGED <<now, connected, authorized, cleared>>

\* lines 128-172: the enumeration ran to its end (or to the cap), the cache
\* is replaced and the first limit entries are returned
iter_dialogs(p, b) ==
    /\ task[p].pc = "iter_dialogs"
    /\ connected /\ authorized
    /\ LET dialogs == Fetched[b]
       IN /\ dialogs_cache' = StoredCache(dialogs)
          /\ dialogs_cache_time' = StoredCacheTime(task[p].current_time)
          /\ task' = [task EXCEPT ![p] =
                 Returned("get_dialogs", @.refills, Slice(dialogs, @.limit))]
    /\ UNCHANGED <<now, connected, authorized, cleared>>

\* iter_dialogs_raises for a refill that empties the cache before it enumerates
iter_dialogs_raises_emptied(p) ==
    /\ task[p].pc = "iter_dialogs"
    /\ task' = [task EXCEPT ![p] = Raised(@, "Exception")]
    /\ dialogs_cache' = None
    /\ dialogs_cache_time' = 0
    /\ UNCHANGED <<now, connected, authorized, cleared>>

\* lines 131-162: the enumeration raised (network error, session revoked)
iter_dialogs_raises(p) ==
    /\ task[p].pc = "iter_dialogs"
    /\ task' = [task EXCEPT ![p] = Raised(@, "Exception")]
    /\ UNCHANGED <<now, dialogs_cache, dialogs_cache_time, connected, authorized, cleared>>

\* clear that leaves the list, or the time, as it is
KeptCache == dialogs_cache
KeptCacheTime == dialogs_cache_time

\* what lines 176-177 store
ClearedCache == None
ClearedCacheTime == 0

clear_dialogs_cache(p) ==
    /\ Finished(p)
    /\ dialogs_cache' = ClearedCache
    /\ dialogs_cache_time' = ClearedCacheTime
    /\ task' = [task EXCEPT ![p] = Returned("clear_dialogs_cache", 0, None)]
    /\ cleared' = TRUE
    /\ UNCHANGED <<now, connected, authorized>>

\* the dictionary get_cache_info builds
CacheInfo(cache, cache_time, time) ==
    IF cache = None
    THEN [status |-> "empty", dialogs_count |-> 0, age_seconds |-> 0]
    ELSE LET age == time - cache_time
         IN [status |-> IF age < cache_ttl THEN "active" ELSE "expired",
             dialogs_count |-> Len(cache[1]),
             age_seconds |-> age,
             ttl_seconds |-> cache_ttl]

\* get_cache_info made to wait until no refill is in flight
get_cache_info_after_refills(p) ==
    /\ Finished(p)
    /\ \A q \in Procs : task[q].pc \notin {"start_client", "iter_dialogs"}
    /\ task' = [task EXCEPT ![p] =
           Returned("get_cache_info", 0,
                    CacheInfo(dialogs_cache, dialogs_cache_time, now))]
    /\ UNCHANGED <<now, dialogs_cache, dialogs_cache_time, connected, authorized, cleared>>

get_cache_info(p) ==
    /\ Finished(p)
    /\ task' = [task EXCEPT ![p] =
           Returned("get_cache_info", 0,
                    CacheInfo(dialogs_cache, dialogs_cache_time, now))]
    /\ UNCHANGED <<now, dialogs_cache, dialogs_cache_time, connected, authorized, cleared>>

\* time passes
Tick ==
    /\ now + TickStep <= MaxTime
    /\ now' = now + TickStep
    /\ UNCHANGED <<dialogs_cache, dialogs_cache_time, connected, authorized, task, cleared>>

\* the connection to Telegram drops
ConnectionLost ==
    /\ connected
    /\ connected' = FALSE
    /\ UNCHANGED <<now, dialogs_cache, dialogs_cache_time, authorized, task, cleared>>

\* the callers use the service directly: no HTTP request is involved
Next ==
    \/ \E p \in Procs, limit \in Limits, force_refresh \in BOOLEAN :
          get_dialogs(p, limit, force_refresh) /\ UNCHANGED request
    \/ \E p \in Procs : start_client_connected(p) /\ UNCHANGED request
    \/ \E p \in Procs, logged_in \in BOOLEAN :
          start_client_fallback(p, logged_in) /\ UNCHANGED request
    \/ \E p \in Procs, b \in DOMAIN Backends : iter_dialogs(p, b) /\ UNCHANGED request
    \/ \E p \in Procs : iter_dialogs_raises(p) /\ UNCHANGED request
    \/ \E p \in Procs : clear_dialogs_cache(p) /\ UNCHANGED request
    \/ \E p \in Procs : get_cache_info(p) /\ UNCHANGED request
    \/ Tick /\ UNCHANGED request
    \/ ConnectionLost /\ UNCHANGED request

Spec == Init /\ [][Next]_vars

-----------------------------------------------------------------------------
(* The HTTP gateway (src/main.py): the routes that reach the dialogs       *)
(* cache.  A handler is a coroutine as well: it runs from one await to the *)
(* next, and the service method it calls runs in the same coroutine.       *)

GatewayLimits == {50}       \* limit values tried on GET /dialogs (ge=1, le=200)

\* status codes of the responses
StatusOk == 200
StatusUnauthorized == 401
StatusInternalError == 500
StatusNotConnected == 503

RequestOver(p) == request[p].pc \in {"idle", "done"}

Response(op, status) ==
    [IdleRequest EXCEPT !.op = op, !.pc = "done", !.status = status]

\* the state in which the application starts to serve: startup_event has
\* run start_client, which connected or not, to a session authorized or not
InitGateway ==
    /\ now = StartTime
    /\ dialogs_cache = None
    /\ dialogs_cache_time = 0
    /\ connected \in BOOLEAN
    /\ authorized \in BOOLEAN
    /\ task = [p \in Procs |-> IdleTask]
    /\ cleared = FALSE
    /\ request = [p \in Procs |-> IdleRequest]

\* ConnectedCheck for a handler that does not look at the connection
ConnectedCheckSkipped(is_connected) == 0

\* lines 43-44: the status check_telegram_auth raises before its await, or 0
ConnectedCheck(is_connected) ==
    IF ~is_connected THEN StatusNotConnected ELSE 0

\* a request arrives on a route that starts with check_telegram_auth
\* (lines 117, 189, 238): the handler up to the await of line 46
check_telegram_auth(p, op, limit, force_refresh, invite_link) ==
    /\ RequestOver(p)
    /\ request' = [request EXCEPT ![p] =
           IF ConnectedCheck(connected) # 0
           THEN Response(op, ConnectedCheck(connected))
           ELSE [IdleRequest EXCEPT !.op = op, !.pc = "is_user_authorized",
                                    !.limit = limit,
                                    !.force_refresh = force_refresh,
                                    !.invite_link = invite_link]]
    /\ UNCHANGED <<now, dialogs_cache, dialogs_cache_time, connected, authorized,
                   task, cleared>>

\* lines 46-47: is_user_authorized answered no
check_telegram_auth_unauthorized(p) ==
    /\ request[p].pc = "is_user_authorized"
    /\ ~authorized
    /\ request' = [request EXCEPT ![p] = Response(@.op, StatusUnauthorized)]
    /\ UNCHANGED <<now, dialogs_cache, dialogs_cache_time, connected, authorized,
                   task, cleared>>

\* the handler after a step of the service call it awaits: the call
\* returned (lines 121-123, 244-254), raised (lines 124-127, 255-258), or
\* is suspended again
Respond(p) ==
    request' = [request EXCEPT ![p] =
        IF task'[p].pc = "returned"
        THEN [Response(@.op, StatusOk) EXCEPT
                 !.cleared_time = request[p].cleared_time]
        ELSE IF task'[p].pc = "raised"
        THEN [Response(@.op, StatusInternalError) EXCEPT
                 !.cleared_time = request[p].cleared_time]
        ELSE [@ EXCEPT !.pc = "service"]]

\* GET /dialogs, lines 117-120: is_user_authorized answered yes and the
\* handler calls get_dialogs, which runs up to its first await
http_get_dialogs(p) ==
    /\ request[p].pc = "is_user_authorized"
    /\ request[p].op = "GET /dialogs"
    /\ authorized
    /\ get_dialogs(p, request[p].limit, request[p].force_refresh)
    /\ Respond(p)

\* refresh_dialogs_cache for a handler that refills without clearing first
refresh_dialogs_cache_without_clear(p) ==
    /\ request[p].pc = "is_user_authorized"
    /\ request[p].op = "POST /dialogs/refresh"
    /\ authorized
    /\ task' = [task EXCEPT ![p] =
           [IdleTask EXCEPT !.op = "get_dialogs",
                !.pc = IF connected THEN "iter_dialogs" ELSE "start_client",
                !.limit = ClampLimit(200), !.force_refresh = TRUE,
                !.current_time = now, !.refills = 1]]
    /\ cleared' = FALSE
    /\ request' = [request EXCEPT ![p] =
           [@ EXCEPT !.pc = "service",
                     !.cleared_time =
                         IF dialogs_cache # None
                            /\ now - dialogs_cache_time < cache_ttl
                         THEN dialogs_cache_time ELSE 0]]
    /\ UNCHANGED <<now, dialogs_cache, dialogs_cache_time, connected, authorized>>

\* POST /dialogs/refresh, lines 238-243: is_user_authorized answered yes,
\* the handler clears the cache and calls get_dialogs(limit=200,
\* force_refresh=True), which misses and runs up to its first await
refresh_dialogs_cache(p) ==
    /\ request[p].pc = "is_user_authorized"
    /\ request[p].op = "POST /dialogs/refresh"
    /\ authorized
    /\ dialogs_cache' = ClearedCache
    /\ dialogs_cache_time' = ClearedCacheTime
    /\ task' = [task EXCEPT ![p] =
           [IdleTask EXCEPT !.op = "get_dialogs",
                !.pc = IF connected THEN "iter_dialogs" ELSE "start_client",
                !.limit = ClampLimit(200), !.force_refresh = TRUE,
                !.current_time = now, !.refills = 1]]
    /\ cleared' = FALSE
    /\ request' = [request EXCEPT ![p] =
           [@ EXCEPT !.pc = "service",
                     !.cleared_time =
                         IF dialogs_cache # None
                            /\ now - dialogs_cache_time < cache_ttl
                         THEN dialogs_cache_time ELSE 0]]
    /\ UNCHANGED <<now, connected, authorized>>

\* DELETE /dialogs/cache, lines 277-284
clear_cache(p) ==
    /\ RequestOver(p)
    /\ clear_dialogs_cache(p)
    /\ request' = [request EXCEPT ![p] = Response("DELETE /dialogs/cache", StatusOk)]

\* GET /dialogs/cache/info, lines 260-275
http_get_cache_info(p) ==
    /\ RequestOver(p)
    /\ get_cache_info(p)
    /\ request' = [request EXCEPT ![p] = Response("GET /dialogs/cache/info", StatusOk)]

NextGateway ==
    \/ \E p \in Procs, limit \in GatewayLimits, force_refresh \in BOOLEAN :
          check_telegram_auth(p, "GET /dialogs", limit, force_refresh, <<>>)
    \/ \E p \in Procs :
          check_telegram_auth(p, "POST /dialogs/refresh", 0, FALSE, <<>>)
    \/ \E p \in Procs : check_telegram_auth_unauthorized(p)
    \/ \E p \in Procs : http_get_dialogs(p)
    \/ \E p \in Procs : refresh_dialogs_cache(p)
    \/ \E p \in Procs : clear_cache(p)
    \/ \E p \in Procs : http_get_cache_info(p)
    \/ \E p \in Procs : start_client_connected(p) /\ Respond(p)
    \/ \E p \in Procs, logged_in \in BOOLEAN :
          start_client_fallback(p, logged_in) /\ Respond(p)
    \/ \E p \in Procs, b \in DOMAIN Backends : iter_dialogs(p, b) /\ Respond(p)
    \/ \E p \in Procs : iter_dialogs_raises(p) /\ Respond(p)
    \/ now < GatewayMaxTime /\ Tick /\ UNCHANGED request
    \/ ConnectionLost /\ UNCHANGED request

GatewaySpec == InitGateway /\ [][NextGateway]_vars

-----------------------------------------------------------------------------
(* POST /joinChat (src/main.py) and join_chat (src/telegram_client.py).    *)
(* A link is the sequence of its pieces: "/" and "@" are the characters,   *)
(* any other piece is a run of characters without "/", ".me/" or "@".      *)

JoinchatLink == <<"https:", "/", "/", "t.me", "/", "joinchat", "/", "HASH">>
ChannelLink == <<"https:", "/", "/", "t.me", "/", "channel_name">>
AtChannelLink == <<"https:", "/", "/", "t.me", "/", "@", "channel_name">>
AtHandle == <<"@", "channel_name">>

InviteLinks == {JoinchatLink, ChannelLink, AtChannelLink, AtHandle}

\* what ImportChatInviteRequest can answer: done, or the exception it raises
ImportAnswers ==
    {"ok", "InviteHashExpiredError", "InviteHashInvalidError",
     "UserAlreadyParticipantError", "FloodWaitError"}

StatusBadRequest == 400

\* s.split(sep)
RECURSIVE Split(_, _)
Split(s, sep) ==
    IF s = <<>> THEN << <<>> >>
    ELSE LET rest == Split(Tail(s), sep)
         IN IF Head(s) = sep THEN << <<>> >> \o rest
            ELSE << <<Head(s)>> \o rest[1] >> \o Tail(rest)

\* s.split('/')[-1]
LastSegment(s) == Split(s, "/")[Len(Split(s, "/"))]

\* 't.me/' in s
HasTme(s) == \E i \in 1..(Len(s) - 1) : s[i] = "t.me" /\ s[i + 1] = "/"

\* lines 247-249
Username(invite_link) ==
    LET username == LastSegment(invite_link)
    IN IF username # <<>> /\ Head(username) = "@" THEN Tail(username)
       ELSE username

\* the messages of the exceptions (the source's are in Russian)
InviteExpired == "invite link expired"
InviteInvalid == "invite link invalid"
SessionMissing == "session not found"
NoInteractiveLogin == "no interactive login here"
JoinChatError(description) == "join_chat error: " \o description
JoinChatDetail(description) == "joinChat failed: " \o description

\* ExceptClause without the clause of line 241
ExceptClauseWithoutParticipant(answer) ==
    CASE answer = "ok" -> "joined"
      [] answer = "InviteHashExpiredError" -> "expired"
      [] answer = "InviteHashInvalidError" -> "invalid"
      [] OTHER -> "username"

\* lines 231-243: where the answer of ImportChatInviteRequest leads
ExceptClause(answer) ==
    CASE answer = "ok" -> "joined"
      [] answer = "InviteHashExpiredError" -> "expired"
      [] answer = "InviteHashInvalidError" -> "invalid"
      [] answer = "UserAlreadyParticipantError" -> "already_joined"
      [] OTHER -> "username"

\* the locals of a join_chat call suspended at pc
JoinCall(pc, invite_link, hash, e, username) ==
    [op |-> "join_chat", pc |-> pc, invite_link |-> invite_link,
     hash |-> hash, e |-> e, username |-> username,
     refills |-> 0, result |-> None, error |-> ""]

\* join_chat returned result: lines 192 and 236, 242, 253
JoinReturns(p, result) ==
    /\ task' = [task EXCEPT ![p] = Returned("join_chat", 0, result)]
    /\ request' = [request EXCEPT ![p] =
           [Response(@.op, StatusOk) EXCEPT !.body = Some(result)]]

\* join_chat raised ValueError: lines 193-194
JoinRaisesValueError(p, message) ==
    /\ task' = [task EXCEPT ![p] =
           [IdleTask EXCEPT !.op = "join_chat", !.pc = "raised",
                            !.error = "ValueError"]]
    /\ request' = [request EXCEPT ![p] =
           [Response(@.op, StatusBadRequest) EXCEPT !.detail = message]]

\* join_chat raised Exception: lines 195-196
JoinRaisesException(p, message) ==
    /\ task' = [task EXCEPT ![p] =
           [IdleTask EXCEPT !.op = "join_chat", !.pc = "raised",
                            !.error = "Exception"]]
    /\ request' = [request EXCEPT ![p] =
           [Response(@.op, StatusInternalError) EXCEPT
               !.detail = JoinChatDetail(message)]]

\* lines 189-191 and 229-235: is_user_authorized answered yes, the handler
\* calls join_chat, which runs up to its first await
http_join_chat(p) ==
    /\ request[p].pc = "is_user_authorized"
    /\ request[p].op = "POST /joinChat"
    /\ authorized
    /\ task' = [task EXCEPT ![p] =
           JoinCall(IF connected THEN "ImportChatInviteRequest" ELSE "start_client",
                    request[p].invite_link, LastSegment(request[p].invite_link),
                    "", <<>>)]
    /\ request' = [request EXCEPT ![p].pc = "service"]
    /\ UNCHANGED <<now, dialogs_cache, dialogs_cache_time, connected, authorized,
                   cleared>>

\* line 229 with the client not connected: connect() answered (lines 68-79)
join_start_client_connected(p) ==
    /\ task[p].op = "join_chat" /\ task[p].pc = "start_client"
    /\ connected' = TRUE
    /\ IF authorized
       THEN /\ task' = [task EXCEPT ![p].pc = "ImportChatInviteRequest"]
            /\ UNCHANGED request
       ELSE JoinRaisesValueError(p, SessionMissing)
    /\ UNCHANGED <<now, dialogs_cache, dialogs_cache_time, authorized, cleared>>

\* line 229 with the client not connected: connect() raised and the
\* interactive client.start() (lines 81-93) logged in, or raised as well
join_start_client_fallback(p, logged_in) ==
    /\ task[p].op = "join_chat" /\ task[p].pc = "start_client"
    /\ IF logged_in
       THEN /\ connected' = TRUE
            /\ authorized' = TRUE
            /\ task' = [task EXCEPT ![p].pc = "ImportChatInviteRequest"]
            /\ UNCHANGED request
       ELSE /\ JoinRaisesValueError(p, NoInteractiveLogin)
            /\ UNCHANGED <<connected, authorized>>
    /\ UNCHANGED <<now, dialogs_cache, dialogs_cache_time, cleared>>

\* lines 233-257 from the answer of ImportChatInviteRequest to the next
\* await or to the end of the call
ImportChatInviteRequest(p, answer) ==
    /\ task[p].op = "join_chat" /\ task[p].pc = "ImportChatInviteRequest"
    /\ LET clause == ExceptClause(answer)
       IN CASE clause = "joined" ->
                 JoinReturns(p, [status |-> "joined", message |-> "joined the chat"])
            [] clause = "expired" -> JoinRaisesValueError(p, InviteExpired)
            [] clause = "invalid" -> JoinRaisesValueError(p, InviteInvalid)
            [] clause = "already_joined" ->
                 JoinReturns(p, [status |-> "already_joined",
                                 message |-> "already in this chat"])
            [] OTHER ->
                 IF HasTme(task[p].invite_link)
                 THEN /\ task' = [task EXCEPT ![p] =
                             [@ EXCEPT !.pc = "get_entity", !.e = answer,
                                       !.username = Username(task[p].invite_link)]]
                      /\ UNCHANGED request
                 ELSE JoinRaisesException(p, JoinChatError(JoinChatError(answer)))
    /\ UNCHANGED <<now, dialogs_cache, dialogs_cache_time, connected, authorized,
                   cleared>>

\* line 251: get_entity(username) answered, or raised (lines 256-257)
get_entity(p, found) ==
    /\ task[p].op = "join_chat" /\ task[p].pc = "get_entity"
    /\ IF found
       THEN /\ task' = [task EXCEPT ![p].pc = "JoinChannelRequest"]
            /\ UNCHANGED request
       ELSE JoinRaisesException(p, JoinChatError("UsernameNotOccupiedError"))
    /\ UNCHANGED <<now, dialogs_cache, dialogs_cache_time, connected, authorized,
                   cleared>>

\* lines 252-253: JoinChannelRequest(entity) answered, or raised
\* (lines 256-257)
JoinChannelRequest(p, joined) ==
    /\ task[p].op = "join_chat" /\ task[p].pc = "JoinChannelRequest"
    /\ IF joined
       THEN JoinReturns(p, [status |-> "joined", message |-> "joined the channel"])
       ELSE JoinRaisesException(p, JoinChatError("ChannelPrivateError"))
    /\ UNCHANGED <<now, dialogs_cache, dialogs_cache_time, connected, authorized,
                   cleared>>

NextJoin ==
    \/ \E p \in Procs, invite_link \in InviteLinks :
          check_telegram_auth(p, "POST /joinChat", 0, FALSE, invite_link)
    \/ \E p \in Procs : check_telegram_auth_unauthorized(p)
    \/ \E p \in Procs : http_join_chat(p)
    \/ \E p \in Procs : join_start_client_connected(p)
    \/ \E p \in Procs, logged_in \in BOOLEAN : join_start_client_fallback(p, logged_in)
    \/ \E p \in Procs, answer \in ImportAnswers : ImportChatInviteRequest(p, answer)
    \/ \E p \in Procs, found \in BOOLEAN : get_entity(p, found)
    \/ \E p \in Procs, joined \in BOOLEAN : JoinChannelRequest(p, joined)
    \/ ConnectionLost /\ UNCHANGED request

JoinSpec == InitGateway /\ [][NextJoin]_vars

-----------------------------------------------------------------------------
(* Vocabulary of the properties.                                           *)

IsPrefix(a, b) ==
    /\ Len(a) <= Len(b)
    /\ \A i \in 1..Len(a) : a[i] = b[i]

InFlight(p) == task[p].pc \in {"start_client", "iter_dialogs"}

\* a step in which p's refill publishes its list and p's call returns
Refilled(p) == \E b \in DOMAIN Backends : iter_dialogs(p, b)

\* a step in which p's get_dialogs call raises
GetRaises(p) ==
    \/ start_client_connected(p) /\ task'[p].pc = "raised"
    \/ start_client_fallback(p, FALSE)
    \/ iter_dialogs_raises(p)

\* p's get_dialogs call returned from the cache, or after a refill
ServedFromCache(p) ==
    task[p].op = "get_dialogs" /\ task[p].pc = "returned" /\ task[p].refills = 0

ServedByRefill(p) ==
    task[p].op = "get_dialogs" /\ task[p].pc = "returned" /\ task[p].refills = 1

\* the dialogs of a backend list that are not archived, in its order
NotArchived(dialog) == ~dialog.archived

Accepted == [b \in DOMAIN Backends |-> SelectSeq(Backends[b], NotArchived)]

\* snapshot holds the first 200 non-archived dialogs of backend list b
SnapshotOf(snapshot, b) ==
    /\ Len(snapshot) = Min(200, Len(Accepted[b]))
    /\ \A i \in 1..Len(snapshot) : snapshot[i].id = Accepted[b][i].id

\* the ids of the archived dialogs of the backend lists
ArchivedIds ==
    UNION { {Backends[b][i].id : i \in {j \in DOMAIN Backends[b] : Backends[b][j].archived}}
            : b \in DOMAIN Backends }

\* the limit the contract asks the call to work with
Clamped(limit) == IF limit < 1 THEN 1 ELSE IF limit > 200 THEN 200 ELSE limit

\* the kind the contract gives to a backend entity
KindOf(dialog) ==
    CASE dialog.entity = "User" -> "user"
      [] dialog.entity = "Chat" -> "group"
      [] dialog.entity = "Channel" /\ dialog.broadcast -> "channel"
      [] dialog.entity = "Channel" /\ ~dialog.broadcast -> "supergroup"
      [] OTHER -> "unknown"

\* the name the contract gives to a dialog
NameOf(dialog) ==
    IF dialog.title = "" THEN "User " \o ToString(dialog.id) ELSE dialog.title

-----------------------------------------------------------------------------
(* C1 TTL freshness.  The get that fills the cache stores the time it was  *)
(* issued at (t1) as the fill time, and every get without force_refresh    *)
(* issued at a time t2 with t2 - t1 < ttl, while that entry is in the      *)
(* cache, returns in one step, makes no pass through the refill path and   *)
(* returns a prefix of the cached snapshot, which it leaves in place.      *)
TTLFreshness ==
    [][\A p \in Procs :
        /\ Refilled(p) => dialogs_cache_time' = task[p].current_time
        /\ \A limit \in Limits :
              /\ ( get_dialogs(p, limit, FALSE) /\ InFlight(p)' )
                    => task'[p].current_time = now
              /\ ( /\ dialogs_cache # None
                   /\ now - dialogs_cache_time < 600
                   /\ get_dialogs(p, limit, FALSE) )
                    => /\ ServedFromCache(p)'
                       /\ IsPrefix(task'[p].result[1], dialogs_cache[1])
                       /\ UNCHANGED <<dialogs_cache, dialogs_cache_time>>
      ]_vars

\* a get served from a snapshot filled earlier: t1 < t2 < t1 + ttl
TTLFreshnessWitness ==
    \E p \in Procs :
        /\ ServedFromCache(p)
        /\ dialogs_cache # None
        /\ dialogs_cache_time < now /\ now - dialogs_cache_time < 600
        /\ task[p].result[1] # <<>>
        /\ IsPrefix(task[p].result[1], dialogs_cache[1])

-----------------------------------------------------------------------------
-----------------------------------------------------------------------------
-----------------------------------------------------------------------------
(* C4 truncation correctness.  When a get returns, its result has          *)
(* min(limit, size of the cached snapshot) entries, limit being the limit  *)
(* after clamping, and is a prefix of the snapshot the cache holds at that *)
(* moment; a cached snapshot is the non-archived dialogs of one backend    *)
(* enumeration, in enumeration order, cut at 200 entries.                  *)
TruncationCorrectness ==
    /\ [](dialogs_cache # None =>
            /\ Len(dialogs_cache[1]) <= 200
            /\ \E b \in DOMAIN Backends : SnapshotOf(dialogs_cache[1], b)
            /\ \A i \in 1..Len(dialogs_cache[1]) :
                  dialogs_cache[1][i].id \notin ArchivedIds)
    /\ [][\A p \in Procs :
            /\ \A limit \in Limits, force_refresh \in BOOLEAN :
                  ( get_dialogs(p, limit, force_refresh) /\ ~InFlight(p)' )
                  => /\ dialogs_cache' # None
                     /\ Len(task'[p].result[1])
                           = Min(ClampLimit(limit), Len(dialogs_cache'[1]))
                     /\ IsPrefix(task'[p].result[1], dialogs_cache'[1])
            /\ Refilled(p)
                  => /\ dialogs_cache' # None
                     /\ Len(task'[p].result[1])
                           = Min(task[p].limit, Len(dialogs_cache'[1]))
                     /\ IsPrefix(task'[p].result[1], dialogs_cache'[1])
         ]_vars

\* a get has returned 1 entry of a snapshot cut at 200 entries, built from a
\* backend list that holds an archived dialog and more than 200 others
TruncationCorrectnessWitness ==
    \E p \in Procs :
        /\ task[p].op = "get_dialogs" /\ task[p].pc = "returned"
        /\ Len(task[p].result[1]) = 1
        /\ dialogs_cache # None /\ Len(dialogs_cache[1]) = 200
        /\ task[p].result[1][1] = dialogs_cache[1][1]
        /\ Len(Accepted[3]) > 200
        /\ ArchivedIds \cap {Backends[3][i].id : i \in DOMAIN Backends[3]} # {}

-----------------------------------------------------------------------------
-----------------------------------------------------------------------------
(* C6 refill failure isolation.  No step of a get other than the           *)
(* publishing step of a successful refill changes the cache; a get whose   *)
(* start_client or enumeration fails ends with the error; a later get      *)
(* without force_refresh returns a prefix of the snapshot in the cache if  *)
(* it is fresh, and goes to the backend again if there is none.            *)
RefillFailureIsolation ==
    [][\A p \in Procs :
        /\ GetRaises(p)
              => /\ UNCHANGED <<dialogs_cache, dialogs_cache_time>>
                 /\ task'[p].pc = "raised" /\ task'[p].error # ""
        /\ ( \/ start_client_connected(p)
             \/ \E logged_in \in BOOLEAN : start_client_fallback(p, logged_in) )
              => UNCHANGED <<dialogs_cache, dialogs_cache_time>>
        /\ \A limit \in Limits :
              /\ ( \E force_refresh \in BOOLEAN : get_dialogs(p, limit, force_refresh) )
                    => UNCHANGED <<dialogs_cache, dialogs_cache_time>>
              /\ ( /\ dialogs_cache # None
                   /\ now - dialogs_cache_time < 600
                   /\ get_dialogs(p, limit, FALSE) )
                    => /\ ServedFromCache(p)'
                       /\ IsPrefix(task'[p].result[1], dialogs_cache[1])
              /\ ( dialogs_cache = None /\ get_dialogs(p, limit, FALSE) )
                    => InFlight(p)'
      ]_vars

\* a refill has failed, the snapshot filled before is in place and fresh,
\* and the other caller has been served from it
RefillFailureIsolationWitness ==
    \E p \in Procs, q \in Procs :
        /\ task[p].op = "get_dialogs" /\ task[p].pc = "raised"
        /\ task[p].error = "Exception"
        /\ dialogs_cache # None /\ dialogs_cache[1] # <<>>
        /\ now - dialogs_cache_time < 600
        /\ ServedFromCache(q)
        /\ IsPrefix(task[q].result[1], dialogs_cache[1])

-----------------------------------------------------------------------------
(* C7 as stated: clear empties the cache, and the first get issued after   *)
(* a clear goes to the backend instead of returning from the cache, in     *)
(* every interleaving.                                                     *)
ClearThenRefill ==
    [][\A p \in Procs :
        /\ clear_dialogs_cache(p)
              => dialogs_cache' = None /\ dialogs_cache_time' = 0
        /\ \A limit \in Limits, force_refresh \in BOOLEAN :
              ( cleared /\ get_dialogs(p, limit, force_refresh) )
              => InFlight(p)'
      ]_vars

-----------------------------------------------------------------------------
(* C8 clear idempotence.  In the state clear leaves, get_cache_info        *)
(* reports status empty and dialogs_count 0, whatever the cache held, and  *)
(* a second clear would store what the state already holds.                *)
ClearIdempotence ==
    [][\A p \in Procs :
        /\ clear_dialogs_cache(p)
              => /\ CacheInfo(dialogs_cache, dialogs_cache_time, now)'.status = "empty"
                 /\ CacheInfo(dialogs_cache, dialogs_cache_time, now)'.dialogs_count = 0
                 /\ dialogs_cache' = ClearedCache'
                 /\ dialogs_cache_time' = ClearedCacheTime'
        /\ ( /\ dialogs_cache = ClearedCache
             /\ dialogs_cache_time = ClearedCacheTime
             /\ get_cache_info(p) )
              => /\ task'[p].result[1].status = "empty"
                 /\ task'[p].result[1].dialogs_count = 0
      ]_vars

\* clear has emptied a cache that a refill had filled
ClearIdempotenceWitness ==
    \E p \in Procs, q \in Procs :
        /\ task[p].op = "clear_dialogs_cache" /\ task[p].pc = "returned"
        /\ ServedByRefill(q) /\ task[q].result[1] # <<>>
        /\ cleared
        /\ dialogs_cache = None /\ dialogs_cache_time = 0
        /\ CacheInfo(dialogs_cache, dialogs_cache_time, now).status = "empty"

-----------------------------------------------------------------------------
(* C9 as stated: get_cache_info changes neither the snapshot nor the fill  *)
(* time, starts no backend call, and returns the four fields status,       *)
(* dialogs_count, age_seconds and ttl_seconds in every cache state, with   *)
(* status empty without an entry, expired at age >= ttl, active otherwise. *)
InfoContract ==
    [][\A p \in Procs :
        get_cache_info(p)
        => /\ UNCHANGED <<dialogs_cache, dialogs_cache_time>>
           /\ ~InFlight(p)' /\ task'[p].refills = 0
           /\ DOMAIN task'[p].result[1]
                 = {"status", "dialogs_count", "age_seconds", "ttl_seconds"}
           /\ task'[p].result[1].status =
                 IF dialogs_cache = None THEN "empty"
                 ELSE IF now - dialogs_cache_time >= 600 THEN "expired"
                 ELSE "active"
      ]_vars

-----------------------------------------------------------------------------
(* C10 limit clamp.  For every integer limit the call works with           *)
(* max(1, min(limit, 200)): a get that returns from the cache returns that *)
(* many entries or the whole snapshot if it is shorter, and a get that     *)
(* refills keeps that value until it returns that many entries of the      *)
(* list it published, or the whole list.                                   *)
LimitClamped ==
    [][\A p \in Procs :
        /\ \A limit \in Limits, force_refresh \in BOOLEAN :
              get_dialogs(p, limit, force_refresh)
              => IF InFlight(p)'
                 THEN task'[p].limit = Clamped(limit)
                 ELSE Len(task'[p].result[1])
                         = Min(Clamped(limit), Len(dialogs_cache[1]))
        /\ ( InFlight(p) /\ InFlight(p)' ) => task'[p].limit = task[p].limit
        /\ Refilled(p)
              => Len(task'[p].result[1])
                    = Min(task[p].limit, Len(dialogs_cache'[1]))
      ]_vars

\* no caller passes limit 1 or 200, and one get returned exactly 1 entry of
\* a longer snapshot (limit 0 or -1) while the other refills with limit 200
\* (limit 201)
LimitClampedWitness ==
    /\ 1 \notin Limits /\ 200 \notin Limits
    /\ \E p \in Procs, q \in Procs :
          /\ ServedFromCache(p)
          /\ Len(task[p].result[1]) = 1
          /\ dialogs_cache # None /\ Len(dialogs_cache[1]) > 1
          /\ IsPrefix(task[p].result[1], dialogs_cache[1])
          /\ InFlight(q) /\ task[q].limit = 200
-----------------------------------------------------------------------------
(* C11 one shared snapshot.  A refill stores all the non-archived dialogs  *)
(* the backend enumerated, up to 200, whatever limit its caller passed:    *)
(* the caller gets the first limit of them and get_cache_info counts them  *)
(* all; a get without force_refresh on the fresh entry, with any limit,    *)
(* returns min(limit, snapshot size) entries of it with no pass through    *)
(* the refill path.                                                        *)
SharedSnapshot ==
    [][\A p \in Procs :
        /\ \A b \in DOMAIN Backends :
              iter_dialogs(p, b)
              => /\ dialogs_cache' # None
                 /\ SnapshotOf(dialogs_cache'[1], b)
                 /\ Len(task'[p].result[1])
                       = Min(task[p].limit, Min(200, Len(Accepted[b])))
                 /\ CacheInfo(dialogs_cache, dialogs_cache_time, now)'.dialogs_count
                       = Min(200, Len(Accepted[b]))
        /\ \A limit \in Limits :
              ( /\ dialogs_cache # None
                /\ now - dialogs_cache_time < 600
                /\ get_dialogs(p, limit, FALSE) )
              => /\ ServedFromCache(p)'
                 /\ Len(task'[p].result[1])
                       = Min(Clamped(limit), Len(dialogs_cache[1]))
                 /\ IsPrefix(task'[p].result[1], dialogs_cache[1])
      ]_vars

\* a refill returned fewer entries than it cached, and the other caller was
\* served more entries, all of them, from that same entry
SharedSnapshotWitness ==
    \E p \in Procs, q \in Procs :
        /\ ServedByRefill(p)
        /\ dialogs_cache # None
        /\ Len(task[p].result[1]) < Len(dialogs_cache[1])
        /\ CacheInfo(dialogs_cache, dialogs_cache_time, now).dialogs_count
              = Len(dialogs_cache[1])
        /\ ServedFromCache(q)
        /\ Len(task[q].result[1]) > Len(task[p].result[1])
        /\ task[q].result[1] = dialogs_cache[1]
-----------------------------------------------------------------------------
(* C14 reads and clear do not wait for refills.  While another caller's    *)
(* refill is in flight, whether or not it ever completes, a caller can     *)
(* take a get_cache_info step, a clear step and, on a fresh entry, a get   *)
(* step without force_refresh; each of these steps is the whole call (the  *)
(* caller has returned at its end) and leaves the refill where it was.     *)
NonBlockingReads ==
    /\ [](\A p \in Procs : \A q \in Procs \ {p} :
            ( InFlight(q) /\ Finished(p) )
            => /\ ENABLED get_cache_info(p)
               /\ ENABLED clear_dialogs_cache(p)
               /\ ( dialogs_cache # None /\ now - dialogs_cache_time < 600 )
                     => \A limit \in Limits : ENABLED get_dialogs(p, limit, FALSE))
    /\ [][\A p \in Procs : \A q \in Procs \ {p} :
            InFlight(q)
            => /\ ( get_cache_info(p) \/ clear_dialogs_cache(p) )
                     => task'[p].pc = "returned" /\ task'[q] = task[q]
               /\ \A limit \in Limits :
                     ( /\ dialogs_cache # None
                       /\ now - dialogs_cache_time < 600
                       /\ get_dialogs(p, limit, FALSE) )
                     => ServedFromCache(p)' /\ task'[q] = task[q]
         ]_vars

\* a clear has run and returned after the refill still in flight was issued,
\* and the entry an earlier refill left would have been fresh for a get
NonBlockingReadsWitness ==
    \E p \in Procs, q \in Procs :
        /\ task[q].pc = "iter_dialogs" /\ task[q].seen_time # 0
        /\ task[q].current_time < now
        /\ cleared
        /\ task[p].op = "clear_dialogs_cache" /\ task[p].pc = "returned"
-----------------------------------------------------------------------------
(* C16 classification.  Whatever the cache holds when a refill publishes,  *)
(* each summary it stores has the kind of its backend entity (user for a   *)
(* person, group for a small group, channel for a channel with the         *)
(* broadcast flag, supergroup for a channel without it, unknown for        *)
(* anything else) and as name the title of the dialog, or "User {id}" when *)
(* the title is empty.                                                     *)
Classification ==
    [][\A p \in Procs, b \in DOMAIN Backends :
        iter_dialogs(p, b)
        => /\ dialogs_cache' # None
           /\ Len(dialogs_cache'[1]) = Min(200, Len(Accepted[b]))
           /\ \A i \in 1..Len(dialogs_cache'[1]) :
                 /\ dialogs_cache'[1][i].id = Accepted[b][i].id
                 /\ dialogs_cache'[1][i].type = KindOf(Accepted[b][i])
                 /\ dialogs_cache'[1][i].name = NameOf(Accepted[b][i])
      ]_vars

\* a refill has replaced an older entry by a snapshot that holds the five
\* kinds, a titled dialog and an untitled one
ClassificationWitness ==
    /\ dialogs_cache # None
    /\ dialogs_cache_time > StartTime
    /\ {"user", "group", "channel", "supergroup", "unknown"}
          \subseteq {dialogs_cache[1][i].type : i \in 1..Len(dialogs_cache[1])}
    /\ \E i \in 1..Len(dialogs_cache[1]) :
          /\ dialogs_cache[1][i].id = 11
          /\ dialogs_cache[1][i].name = "User 11"
    /\ \E i \in 1..Len(dialogs_cache[1]) : dialogs_cache[1][i].name = "news"
    /\ \E p \in Procs : ServedByRefill(p)
-----------------------------------------------------------------------------
(* C17 concurrent refills.  Two gets that both missed the cache can both   *)
(* be enumerating before either has written (the witness), and the one     *)
(* that publishes first leaves the other to run its own enumeration.  In   *)
(* every interleaving the cache is empty or holds the complete list of one *)
(* enumeration, and every step that changes it is a clear or the           *)
(* publishing step of one refill, which writes that refill's list together *)
(* with that refill's time.                                                *)
ConcurrentRefills ==
    /\ [](\/ dialogs_cache = None /\ dialogs_cache_time = 0
          \/ /\ dialogs_cache # None /\ dialogs_cache_time >= StartTime
             /\ \E b \in DOMAIN Backends : SnapshotOf(dialogs_cache[1], b))
    /\ [][/\ ( dialogs_cache' # dialogs_cache \/ dialogs_cache_time' # dialogs_cache_time )
              => \/ \E p \in Procs :
                       /\ clear_dialogs_cache(p)
                       /\ dialogs_cache' = None /\ dialogs_cache_time' = 0
                 \/ \E p \in Procs, b \in DOMAIN Backends :
                       /\ iter_dialogs(p, b)
                       /\ dialogs_cache' # None
                       /\ SnapshotOf(dialogs_cache'[1], b)
                       /\ dialogs_cache_time' = task[p].current_time
                       /\ IsPrefix(task'[p].result[1], dialogs_cache'[1])
          /\ \A p \in Procs : \A q \in Procs \ {p} :
                ( Refilled(p) /\ task[q].pc = "iter_dialogs" )
                => task'[q] = task[q]
         ]_vars

\* both callers missed the empty cache at the same time and both are in
\* their enumeration, with Telegram able to answer both
ConcurrentRefillsWitness ==
    /\ \A p \in Procs :
          /\ task[p].pc = "iter_dialogs"
          /\ ~task[p].force_refresh
          /\ task[p].current_time = now
          /\ task[p].refills = 1
    /\ dialogs_cache = None
    /\ connected /\ authorized
-----------------------------------------------------------------------------
(* C19 as stated: at the end of the step in which a get that refilled      *)
(* returns, the entry it installed is fresh (get_cache_info would report   *)
(* status active, and a get without force_refresh would pass the cache     *)
(* test), however long the enumeration took.                               *)
FreshAfterRefill ==
    [][\A p \in Procs :
        Refilled(p)
        => /\ dialogs_cache' # None
           /\ now' - dialogs_cache_time' < 600
           /\ CacheInfo(dialogs_cache, dialogs_cache_time, now)'.status = "active"
      ]_vars

-----------------------------------------------------------------------------
(* C20 as stated: with no clear in between, an entry installed over        *)
(* another has a fill time greater than or equal to the fill time of the   *)
(* entry it replaces.                                                      *)
MonotonicFillTime ==
    [][\A p \in Procs :
        ( Refilled(p) /\ dialogs_cache # None )
        => dialogs_cache_time' >= dialogs_cache_time
      ]_vars
-----------------------------------------------------------------------------
-----------------------------------------------------------------------------
(* C13 as stated, in its consequence: the check of check_telegram_auth    *)
(* comes before any work on the cache in every handler, so that no step    *)
(* changes the cache or the fill time while the client is not connected or *)
(* the session is not authorized.                                          *)
NoCacheChangeWithoutAuth ==
    [][~(connected /\ authorized)
          => UNCHANGED <<dialogs_cache, dialogs_cache_time>>
      ]_vars
-----------------------------------------------------------------------------
(* C15 already joined.  When ImportChatInviteRequest answers that the      *)
(* account already participates, join_chat returns in that step with       *)
(* status already_joined, the request is answered 200 with that status and *)
(* no error detail, and the call does not go on to get_entity or           *)
(* JoinChannelRequest.                                                     *)
AlreadyJoined ==
    [][\A p \in Procs :
        ImportChatInviteRequest(p, "UserAlreadyParticipantError")
        => /\ task'[p].pc = "returned"
           /\ task'[p].result[1].status = "already_joined"
           /\ request'[p].pc = "done"
           /\ request'[p].status = 200
           /\ request'[p].body # None
           /\ request'[p].body[1].status = "already_joined"
           /\ request'[p].detail = ""
      ]_vars

\* a request to join by an invite link was answered already_joined
AlreadyJoinedWitness ==
    \E p \in Procs :
        /\ request[p].op = "POST /joinChat" /\ request[p].pc = "done"
        /\ request[p].status = 200
        /\ request[p].body # None /\ request[p].body[1].status = "already_joined"
        /\ task[p].op = "join_chat" /\ task[p].pc = "returned"

-----------------------------------------------------------------------------
(* C18 as stated: an expired or invalid hash ends the request with a       *)
(* validation error and no second stage; on any other error of the first   *)
(* stage the call goes on, for https://t.me/channel_name and for           *)
(* @channel_name, to resolve channel_name and join it; a failure of the    *)
(* second stage ends the request with a generic failure whose detail       *)
(* carries the description of the inner error.                             *)
JoinFallback ==
    [][\A p \in Procs :
        /\ \A answer \in {"InviteHashExpiredError", "InviteHashInvalidError"} :
              ImportChatInviteRequest(p, answer)
              => /\ task'[p].pc = "raised"
                 /\ request'[p].pc = "done" /\ request'[p].status = 400
        /\ ( /\ ImportChatInviteRequest(p, "FloodWaitError")
             /\ task[p].invite_link \in {ChannelLink, AtHandle} )
              => /\ task'[p].pc = "get_entity"
                 /\ task'[p].username = <<"channel_name">>
        /\ get_entity(p, FALSE)
              => /\ request'[p].pc = "done" /\ request'[p].status = 500
                 /\ request'[p].detail
                       = "joinChat failed: join_chat error: UsernameNotOccupiedError"
        /\ JoinChannelRequest(p, FALSE)
              => /\ request'[p].pc = "done" /\ request'[p].status = 500
                 /\ request'[p].detail
                       = "joinChat failed: join_chat error: ChannelPrivateError"
      ]_vars
-----------------------------------------------------------------------------
(* C21 as stated: when a refresh has cleared a fresh snapshot and its      *)
(* refill fails, the request is answered with a generic failure and the    *)
(* cache is empty at that moment (get_cache_info would report status       *)
(* empty).  Stated for the executions in which no refill issued before     *)
(* the clear of the refresh has published after it: whatever the cache     *)
(* holds was issued later than the refresh (task[p].current_time is the    *)
(* time of the clear, read in the same step).                              *)
FailedRefreshLeavesEmpty ==
    [][\A p \in Procs :
        ( /\ request[p].op = "POST /dialogs/refresh"
          /\ request[p].pc = "service"
          /\ request[p].cleared_time # 0
          /\ dialogs_cache # None => dialogs_cache_time > task[p].current_time
          /\ GetRaises(p) )
        => /\ request'[p].pc = "done" /\ request'[p].status = 500
           /\ dialogs_cache' = None
           /\ CacheInfo(dialogs_cache, dialogs_cache_time, now)'.status = "empty"
      ]_vars

(* C21 failed refresh, amended.  The first step of a refresh empties the   *)
(* cache, whatever it held, and starts a forced refill.  While the refresh *)
(* is under way the cache stays empty through every step that is not the   *)
(* publishing step of some refill.  The step in which the refill of the    *)
(* refresh fails answers the request 500 and leaves the cache as it is: it *)
(* does not put back the snapshot the refresh cleared.  A GET /dialogs     *)
(* that finds the cache empty goes to the backend.                         *)
FailedRefresh ==
    [][\A p \in Procs :
        /\ refresh_dialogs_cache(p)
              => /\ dialogs_cache' = None /\ dialogs_cache_time' = 0
                 /\ CacheInfo(dialogs_cache, dialogs_cache_time, now)'.status = "empty"
                 /\ InFlight(p)' /\ task'[p].force_refresh
                 /\ request'[p].pc = "service"
        /\ ( request[p].op = "POST /dialogs/refresh" /\ request[p].pc = "service" )
              => /\ GetRaises(p)
                       => /\ request'[p].pc = "done" /\ request'[p].status = 500
                          /\ UNCHANGED <<dialogs_cache, dialogs_cache_time>>
                 /\ ( dialogs_cache = None /\ ~(\E q \in Procs : Refilled(q)) )
                       => dialogs_cache' = None /\ dialogs_cache_time' = 0
        /\ ( dialogs_cache = None /\ http_get_dialogs(p) )
              => InFlight(p)' /\ request'[p].pc = "service"
      ]_vars

\* a refresh that cleared a fresh snapshot has failed and left the cache
\* empty; the other caller had filled it and is not at work
FailedRefreshWitness ==
    \E p \in Procs, q \in Procs :
        /\ request[p].op = "POST /dialogs/refresh" /\ request[p].pc = "done"
        /\ request[p].status = 500
        /\ request[p].cleared_time # 0
        /\ now - request[p].cleared_time < 600
        /\ task[p].op = "get_dialogs" /\ task[p].pc = "raised"
        /\ task[p].error = "Exception"
        /\ dialogs_cache = None
        /\ CacheInfo(dialogs_cache, dialogs_cache_time, now).status = "empty"
        /\ request[q].op = "GET /dialogs" /\ request[q].pc = "done"
        /\ ServedByRefill(q) /\ task[q].result[1] # <<>>

-----------------------------------------------------------------------------
(* C22 staleness bound.  A call reaches its enumeration no earlier than    *)
(* the time it read at line 116; the step that ends the enumeration        *)
(* publishes the enumerated list under that time; between two publishing   *)
(* steps the cached pair stays as it is or is cleared; and a get without   *)
(* force_refresh that returns from the cache at time t returns a prefix of *)
(* a cached list whose time is strictly later than t - ttl.  So the        *)
(* enumeration behind every list served from the cache began strictly      *)
(* later than t - ttl, whatever gets, refills and clears ran in between.   *)
StalenessBound ==
    [][\A p \in Procs :
        /\ ( task'[p].pc = "iter_dialogs" /\ task[p].pc # "iter_dialogs" )
              => task'[p].current_time <= now
        /\ InFlight(p)
              => /\ task[p].current_time <= now
                 /\ InFlight(p)' => task'[p].current_time = task[p].current_time
        /\ \A b \in DOMAIN Backends :
              iter_dialogs(p, b)
              => /\ dialogs_cache' = Some(Fetched[b])
                 /\ dialogs_cache_time' = task[p].current_time
        /\ \A limit \in Limits :
              ( get_dialogs(p, limit, FALSE) /\ ServedFromCache(p)' )
              => /\ dialogs_cache # None
                 /\ dialogs_cache_time > now - 600
                 /\ IsPrefix(task'[p].result[1], dialogs_cache[1])
        /\ ~(\E q \in Procs : Refilled(q))
              => \/ UNCHANGED <<dialogs_cache, dialogs_cache_time>>
                 \/ dialogs_cache' = None /\ dialogs_cache_time' = 0
      ]_vars

\* a get has returned from the cache, which holds a snapshot filled after
\* the start and younger than the ttl, while the other caller's forced
\* refill, issued earlier, is at its enumeration
StalenessBoundWitness ==
    \E p \in Procs, q \in Procs :
        /\ ServedFromCache(p) /\ task[p].result[1] # <<>>
        /\ dialogs_cache # None
        /\ IsPrefix(task[p].result[1], dialogs_cache[1])
        /\ dialogs_cache_time > StartTime
        /\ dialogs_cache_time < now /\ dialogs_cache_time > now - 600
        /\ task[q].pc = "iter_dialogs" /\ task[q].force_refresh
        /\ task[q].current_time < now
====
